---- MODULE Spec2Model ----
(***************************************************************************)
(* Model of the portal-to-m3u edge function "stalker-converter" and of the *)
(* playlist code of its web client.                                        *)
(*                                                                         *)
(* The repository holds two sources of the edge function:                  *)
(*   build = "scoped" : supabase/functions/stalker-converter/index.ts      *)
(*                      (categories, then pages of every category; upsert; *)
(*                      the response carries counts only)                  *)
(*   build = "flat"   : unnamed/part_001 (one category=* ordered-list call *)
(*                      per kind; insert; the response carries m3uContent) *)
(*                                                                         *)
(* Text is a sequence of one-character strings, so that formatting,        *)
(* regular expressions and line structure are computed, not assumed.       *)
(* A JSON field that is absent and a field that is the empty string are    *)
(* both the empty text <<>>: every use in the source is `x || default` or  *)
(* `if (!x)`, which does not tell them apart.                              *)
(***************************************************************************)
EXTENDS Integers, Sequences, FiniteSets, TLC

VARIABLES
    build,       \* which source of the edge function is deployed
    body,        \* the request body {portalUrl, macAddress, sessionId}
    pc,          \* the await the handler is suspended at
    mac,         \* formattedMac of the running conversion
    sid,         \* effectiveSessionId
    token,       \* the token returned by handshake
    channelsRaw, \* js.data of the channel listing
    cats,        \* vodCategories of the getVODRaw call in progress
    catIdx,      \* position of the for-loop over vodCategories
    page,        \* page of the getVODItems call in progress
    items,       \* raw items being walked (one page, or one whole raw list)
    itemIdx,     \* position of the for-loop over items
    seriesRaw,   \* flat build: js.data of the series list, kept until parsed
    channels,    \* Channel[]
    movies,      \* VODItem[]
    series,      \* VODItem[]
    m3uContent,  \* the serialized playlist (NoText until serialized)
    reqs,        \* every portal request issued, in order
    pending,     \* number of portal requests issued and not yet answered
    resp,        \* the HTTP response of the handler (NoResp until sent)
    db,          \* rows of the table `conversions`
    hist,        \* what the portal answered (observation only)
    portal,      \* "finite": the portal's catalog ends; "endless": it may not
    parked,      \* the locals of the other conversion in flight
    once,        \* formattedMac(macAddress), the normalization on its own
    twice,       \* formattedMac(formattedMac(macAddress))
    storedData   \* client: the lists read back from the table (or null)

vars == <<build, body, pc, mac, sid, token, channelsRaw, cats, catIdx, page,
          items, itemIdx, seriesRaw, channels, movies, series, m3uContent,
          reqs, pending, resp, db, hist, portal, parked, once, twice,
          storedData>>

----------------------------------------------------------------------------
(* Bounds of the model                                                     *)

MaxMacLen == 3      \* free-form device identifiers have 1..MaxMacLen chars
MaxChannels == 2    \* channels in one channel listing
MaxCats == 2        \* categories in one category listing
MaxPages == 2       \* pages of one listing that may hold items
MaxPageItems == 2   \* items on one page
MaxCatalog == 2     \* items the portal lists for one kind, all pages together
MaxEntities == 1    \* entities of each kind given to the serializer alone
MaxShared == 1      \* entries of one listing when two conversions run

----------------------------------------------------------------------------
(* Text                                                                    *)

NoText == <<"<undefined>">>

\* useState<StoredData | null>(null): part_000 49
NoStored == [loaded |-> FALSE, channels |-> <<>>, movies |-> <<>>, series |-> <<>>]

LF == "\n"
LineTerminators == {"\n", "\r"}

T_EXTM3U == <<"#", "E", "X", "T", "M", "3", "U">>
T_EXTINF == <<"#", "E", "X", "T", "I", "N", "F", ":", "-", "1">>
T_EXTINF_TAG == <<"#", "E", "X", "T", "I", "N", "F">>
T_tvgid == <<" ", "t", "v", "g", "-", "i", "d", "=", "\"">>
T_tvglogo == <<" ", "t", "v", "g", "-", "l", "o", "g", "o", "=", "\"">>
T_group == <<" ", "g", "r", "o", "u", "p", "-", "t", "i", "t", "l", "e", "=", "\"">>
T_http == <<"h", "t", "t", "p">>
T_ffmpeg == <<"f", "f", "m", "p", "e", "g">>
T_ffrt == <<"f", "f", "r", "t">>
T_ffrt2k == <<"f", "f", "r", "t", "2", "k">>
LiveTV == <<"L", "i", "v", "e", " ", "T", "V">>
MoviesLabel == <<"M", "o", "v", "i", "e", "s">>
SeriesLabel == <<"S", "e", "r", "i", "e", "s">>
UnknownChannel == <<"U", "n", "k", "n", "o", "w", "n", " ", "C", "h", "a", "n", "n", "e", "l">>
Unknown == <<"U", "n", "k", "n", "o", "w", "n">>
News == <<"N", "e", "w", "s">>
UrlX1 == <<"h", "t", "t", "p", ":", "/", "/", "x", "/", "1">>
FfmpegUrlX1 == <<"f", "f", "m", "p", "e", "g", " ", "h", "t", "t", "p", ":", "/", "/", "x", "/", "1">>
MacScenario == <<"0", "0", ":", "1", "a", ":", "7", "9", ":", "1", "2", ":", "3", "4", ":", "5", "6">>
PortalScenario == <<"h", "t", "t", "p", ":", "/", "/", "e", "x", "a", "m", "p", "l", "e", ".", "c", "o", "m", "/", "c">>

\* String.prototype.startsWith
startsWith(s, p) ==
    /\ Len(s) >= Len(p)
    /\ SubSeq(s, 1, Len(p)) = p

\* the text after the first n characters
Drop(s, n) == SubSeq(s, n + 1, Len(s))

RECURSIVE Concat(_)
Concat(ss) == IF ss = <<>> THEN <<>> ELSE Head(ss) \o Concat(Tail(ss))

\* Array.prototype.join
RECURSIVE join(_, _)
join(parts, sep) ==
    IF parts = <<>> THEN <<>>
    ELSE IF Len(parts) = 1 THEN parts[1]
    ELSE parts[1] \o sep \o join(Tail(parts), sep)

\* the lines of a text: what stands between two LF, before the first one
\* and, when the text does not end with LF, after the last one
Lines(s) ==
    LET nl == {i \in 1..Len(s) : s[i] = LF}
        ends == IF s = <<>> \/ s[Len(s)] = LF THEN nl ELSE nl \cup {Len(s) + 1}
        kth(k) == CHOOSE i \in ends : Cardinality({j \in ends : j < i}) = k - 1
    IN  [k \in 1..Cardinality(ends) |->
            SubSeq(s, (IF k = 1 THEN 0 ELSE kth(k - 1)) + 1, kth(k) - 1)]

----------------------------------------------------------------------------
(* Device identity: index.ts 55-56, part_001 50-51                         *)

\* String.prototype.toUpperCase on the characters the model uses
UpperOf(c) ==
    CASE c = "a" -> "A" [] c = "b" -> "B" [] c = "c" -> "C"
      [] c = "d" -> "D" [] c = "e" -> "E" [] c = "f" -> "F"
      [] c = "g" -> "G" [] OTHER -> c

toUpperCase(s) == [i \in 1..Len(s) |-> UpperOf(s[i])]

\* macAddress.toUpperCase().replace(/[:-]/g, '')
cleanMac(macAddress) ==
    SelectSeq(toUpperCase(macAddress), LAMBDA c : c \notin {":", "-"})

\* s.match(/.{1,2}/g): the matches left to right, each one or two
\* characters, greedy; `.` does not match a line terminator, which is
\* skipped and ends the match before it.  <<>> stands for null (no match).
RECURSIVE matchPairs(_)
matchPairs(s) ==
    IF s = <<>> THEN <<>>
    ELSE IF Head(s) \in LineTerminators THEN matchPairs(Tail(s))
    ELSE IF Len(s) >= 2 /\ s[2] \notin LineTerminators
         THEN <<SubSeq(s, 1, 2)>> \o matchPairs(Drop(s, 2))
    ELSE <<SubSeq(s, 1, 1)>> \o matchPairs(Tail(s))

\* cleanMac.match(/.{1,2}/g)?.join(':') || macAddress
formattedMac(macAddress) ==
    LET m == matchPairs(cleanMac(macAddress))
    IN  IF m = <<>> THEN macAddress
        ELSE IF join(m, <<":">>) = <<>> THEN macAddress
        ELSE join(m, <<":">>)

----------------------------------------------------------------------------
(* Playlist serializer: index.ts 285-337, part_001 202-254                 *)

\* a pattern whose alternation stops at ffrt and never tries ffrt2k
stripEnginePrefix_m(streamUrl) ==
    IF startsWith(streamUrl, T_ffmpeg \o <<" ">>) THEN Drop(streamUrl, 7)
    ELSE IF startsWith(streamUrl, T_ffrt \o <<" ">>) THEN Drop(streamUrl, 5)
    ELSE streamUrl

\* streamUrl.replace(/^(ffmpeg|ffrt|ffrt2k) /, ''): the alternatives are
\* tried in order and the first whose token is followed by a space wins
stripEnginePrefix(streamUrl) ==
    IF startsWith(streamUrl, T_ffmpeg \o <<" ">>) THEN Drop(streamUrl, 7)
    ELSE IF startsWith(streamUrl, T_ffrt \o <<" ">>) THEN Drop(streamUrl, 5)
    ELSE IF startsWith(streamUrl, T_ffrt2k \o <<" ">>) THEN Drop(streamUrl, 7)
    ELSE streamUrl

\* a test that strips the prefix of the URLs that start with 'http' instead
cleanStreamUrl_m(cmd) ==
    IF cmd # <<>> /\ startsWith(cmd, T_http)
    THEN stripEnginePrefix(cmd)
    ELSE cmd

\* let streamUrl = x.cmd; if (streamUrl && !streamUrl.startsWith('http')) ...
cleanStreamUrl(cmd) ==
    IF cmd # <<>> /\ ~startsWith(cmd, T_http)
    THEN stripEnginePrefix(cmd)
    ELSE cmd

\* the two lines appended for one entity; art is its logo or poster
entry(id, art, group, name, cmd) ==
    LET tvgLogo == IF art # <<>> THEN T_tvglogo \o art \o <<"\"">> ELSE <<>>
        tvgId == IF id # <<>> THEN T_tvgid \o id \o <<"\"">> ELSE <<>>
        groupTitle == IF group # <<>> THEN T_group \o group \o <<"\"">> ELSE <<>>
    IN  T_EXTINF \o tvgId \o tvgLogo \o groupTitle \o <<",">> \o name \o <<LF>>
        \o cleanStreamUrl(cmd) \o <<LF>>

channelEntries(cs) ==
    Concat([i \in 1..Len(cs) |->
              entry(cs[i].id, cs[i].logo, cs[i].group, cs[i].name, cs[i].cmd)])

vodEntries(vs) ==
    Concat([i \in 1..Len(vs) |->
              entry(vs[i].id, vs[i].poster, vs[i].group, vs[i].name, vs[i].cmd)])

\* a serializer that writes the series before the movies
generateM3U_m(cs, ms, ss) ==
    T_EXTM3U \o <<LF>> \o channelEntries(cs) \o vodEntries(ss) \o vodEntries(ms)

generateM3U(cs, ms, ss) ==
    T_EXTM3U \o <<LF>> \o channelEntries(cs) \o vodEntries(ms) \o vodEntries(ss)

----------------------------------------------------------------------------
(* What the portal, the caller and the storage may send                    *)

Builds == {"scoped", "flat"}
Kinds == {"movies", "series"}
Outcomes == {"ok", "non2xx", "badjson", "neterr"}
Tokens == {"abc", "xyz", ""}   \* js.token; "" is an absent or empty token
Portals == {"finite", "endless"}
SessionIds == {"", "s1"}       \* sessionId of the body; "" is absent
UUIDs == {"u1"}                \* values of crypto.randomUUID()

Digit(n) == <<"0", "1", "2", "3", "4", "5", "6", "7", "8", "9">>[n + 1]

Bodies ==
    [portalUrl : {<<>>, PortalScenario},
     macAddress : {<<>>, MacScenario},
     sessionId : SessionIds]

\* raw records of js.data of get_all_channels
RawChannels ==
    { [id |-> <<"1">>, name |-> News, cmd |-> FfmpegUrlX1,
       logo |-> <<>>, number |-> <<>>],
      [id |-> <<"2">>, name |-> <<>>, cmd |-> <<>>,
       logo |-> <<"L">>, number |-> <<"7">>] }

SeqsUpTo(S, n) == UNION {[1..k -> S] : k \in 0..n}

\* a listing names a channel once
ChannelListings ==
    {l \in SeqsUpTo(RawChannels, MaxChannels) :
        \A i, j \in 1..Len(l) : i # j => l[i] # l[j]}

\* raw records of js.data of get_categories: the c-th category of a listing
RawCategory(c) ==
    [id |-> <<Digit(c)>>,
     title |-> IF c = 1 THEN <<"T", Digit(c)>> ELSE <<>>,
     name |-> <<>>]

CategoryListings == {[c \in 1..n |-> RawCategory(c)] : n \in 0..MaxCats}

\* a name that holds a line feed and, after it, the text of a playlist tag:
\* the portal's JSON strings are free text
TwoLineName == <<"N", LF>> \o T_EXTINF \o <<",", "x">>

\* raw records of js.data of get_ordered_list: the i-th item of page p of
\* category c (c = 0: the category=* list), with or without a cmd
RawItem(c, p, i, hasCmd) ==
    [id |-> <<Digit(c), Digit(p), Digit(i)>>,
     name |-> IF ~hasCmd THEN <<>>
              ELSE IF i = 1 THEN <<"N", Digit(p), Digit(i)>>
              ELSE TwoLineName,
     title |-> <<"t">>, o_name |-> <<"o">>,
     cmd |-> IF hasCmd THEN <<"c", Digit(c), Digit(p), Digit(i)>> ELSE <<>>,
     poster_url |-> <<>>, poster |-> <<"p">>,
     screenshot_uri |-> <<>>, pic |-> <<"q">>]

ItemPages(c, p) ==
    UNION {{[i \in 1..n |-> RawItem(c, p, i, h[i])] : h \in [1..n -> BOOLEAN]} :
              n \in 0..MaxPageItems}

\* a second device, for a conversion that runs next to the scenario's
MacOther == <<"0", "0", ":", "1", "A", ":", "7", "9", ":", "A", "B", ":", "C", "D", ":", "E", "F">>

\* the portal binds a token to the device of the Cookie header: the tokens
\* a handshake for the formatted identifier m may return
issuedTo(m) == IF m = MacOther THEN Tokens \ {"abc"} ELSE Tokens \ {"xyz"}

\* js.cmd of a create_link answer for the raw cmd
ResolvedUrl(cmd) == <<"h", "t", "t", "p", ":", "/", "/", "v", "/">> \o cmd

----------------------------------------------------------------------------
(* Requests, responses, rows                                               *)

portalType(kind) == IF kind = "movies" THEN "vod" ELSE "series"

\* portalUrl.trim().replace(/\/+$/, '')
RECURSIVE trimEnd(_, _)
trimEnd(s, cs) ==
    IF s # <<>> /\ s[Len(s)] \in cs THEN trimEnd(SubSeq(s, 1, Len(s) - 1), cs)
    ELSE s

RECURSIVE trimStart(_, _)
trimStart(s, cs) ==
    IF s # <<>> /\ Head(s) \in cs THEN trimStart(Tail(s), cs) ELSE s

cleanUrl(portalUrl) ==
    trimEnd(trimEnd(trimStart(portalUrl, {" "}), {" "}), {"/"})

\* macAddress.replace(/:/g, '%3A') of the Cookie header
cookieMac(m) ==
    Concat([i \in 1..Len(m) |->
              IF m[i] = ":" THEN <<"%", "3", "A">> ELSE <<m[i]>>])

Request(type, action, category, p, cmd, seriesFlag, auth) ==
    [base |-> cleanUrl(body.portalUrl), type |-> type, action |-> action,
     category |-> category, p |-> p, cmd |-> cmd, series |-> seriesFlag,
     auth |-> auth, cookie |-> cookieMac(mac)]

handshakeReq(macAddress) ==
    [base |-> cleanUrl(body.portalUrl), type |-> "stb",
     action |-> "handshake", category |-> <<>>, p |-> 0, cmd |-> <<>>,
     series |-> FALSE, auth |-> "none", cookie |-> cookieMac(macAddress)]
getChannelsReq(tok) ==
    Request("itv", "get_all_channels", <<>>, 0, <<>>, FALSE, tok)
getCategoriesReq(kind) ==
    Request(portalType(kind), "get_categories", <<>>, 0, <<>>, FALSE, token)
getVODItemsReq(kind, categoryId, p) ==
    Request(portalType(kind), "get_ordered_list", categoryId, p, <<>>,
            FALSE, token)
getVODOrderedListReq(type) ==
    Request(type, "get_ordered_list", <<"*">>, 1, <<>>, FALSE, token)
getStreamLinkReq(cmd, kind) ==
    Request("vod", "create_link", <<>>, 0, cmd, kind = "series", token)

NoResp ==
    [status |-> 0, success |-> FALSE, error |-> "", sessionId |-> "",
     channelCount |-> 0, movieCount |-> 0, seriesCount |-> 0,
     totalCount |-> 0, m3uContent |-> NoText]

errorResp(status, message) ==
    [NoResp EXCEPT !.status = status, !.error = message]

successResp(s, cs, ms, ss, m3u) ==
    [status |-> 200, success |-> TRUE, error |-> "", sessionId |-> s,
     channelCount |-> Len(cs), movieCount |-> Len(ms),
     seriesCount |-> Len(ss), totalCount |-> Len(cs) + Len(ms) + Len(ss),
     m3uContent |-> m3u]

E_required == "Portal URL and MAC address are required"
E_handshake == "Handshake failed: "
\* a handshake that raises the non-2xx message for a missing token too
E_token_m == "Handshake failed: "
E_token == "Failed to get token from handshake"
\* getChannelsRaw raising the message copied from handshake
E_channels_m == "Handshake failed: "
E_channels == "Failed to get channels: "
E_vodList == "Failed to get vod list: "
E_seriesList == "Failed to get series list: "
E_fetch == "TypeError: fetch failed"
E_json == "SyntaxError: Unexpected token in JSON"
E_reference == "getSeriesEpisodes is not defined"

\* the message of the error a fetch or response.json() raises by itself
thrownBy(out) == IF out = "neterr" THEN E_fetch ELSE E_json

----------------------------------------------------------------------------
(* Entity normalizer                                                       *)

Or(a, b) == IF a # <<>> THEN a ELSE b

parseChannels(data) ==
    [i \in 1..Len(data) |->
        [id |-> data[i].id,
         name |-> Or(data[i].name, UnknownChannel),
         cmd |-> data[i].cmd,
         logo |-> data[i].logo,
         number |-> Or(data[i].number, data[i].id),
         group |-> LiveTV]]

\* the map of getVODCategories
parseCategories(data) ==
    [i \in 1..Len(data) |->
        [id |-> data[i].id,
         name |-> Or(data[i].title, Or(data[i].name, Unknown))]]

\* the object pushed by getVODItems (scoped build)
scopedVODItem(item, streamUrl, kind, categoryName) ==
    [id |-> item.id,
     name |-> Or(item.name, Or(item.title, Unknown)),
     cmd |-> streamUrl,
     poster |-> Or(item.poster_url, item.poster),
     group |-> (IF kind = "movies" THEN MoviesLabel ELSE SeriesLabel)
               \o <<" ", "ndash", " ">> \o categoryName]

\* the object pushed by parseVODItems (flat build)
flatVODItem(item, streamUrl, kind) ==
    [id |-> item.id,
     name |-> Or(item.name, Or(item.o_name, Unknown)),
     cmd |-> streamUrl,
     poster |-> Or(item.screenshot_uri, item.pic),
     group |-> IF kind = "movies" THEN MoviesLabel ELSE SeriesLabel]

\* the first position >= from of an item that has a cmd (`if (!item.cmd)
\* continue`), 0 when the loop runs out
nextWithCmd(its, from) ==
    IF \E i \in from..Len(its) : its[i].cmd # <<>>
    THEN CHOOSE i \in from..Len(its) :
            /\ its[i].cmd # <<>>
            /\ \A j \in from..(i - 1) : its[j].cmd = <<>>
    ELSE 0

----------------------------------------------------------------------------
(* The handler: Deno.serve, index.ts 36-99 and part_001 36-99.             *)
(* One action is one continuation of the async handler: it takes the       *)
(* answer to the request awaited at pc, runs the code up to the next await *)
(* and issues that await's request.                                        *)

LinkOutcomes == Outcomes \cup {"nocmd"}   \* nocmd: 2xx JSON without js.cmd

NoHist ==
    [fail |-> {}, listed |-> <<>>, links |-> <<>>, last |-> "", lastOut |-> ""]

\* requests and answers are recorded for finite portals only: the states
\* of a run against an endless portal would otherwise never repeat
recorded(log, new) == IF portal = "finite" THEN new ELSE log

RECURSIVE listedCount(_, _)
listedCount(listed, kind) ==
    IF listed = <<>> THEN 0
    ELSE (IF Head(listed).kind = kind THEN Len(Head(listed).data) ELSE 0)
         + listedCount(Tail(listed), kind)

\* the portal answered the request of step as the code expects
sawOk(step) == recorded(hist, [hist EXCEPT !.last = step, !.lastOut = "ok"])
\* the portal answered the request of step with outcome out, not "ok"
sawFail(step, out) ==
    recorded(hist, [hist EXCEPT !.fail = @ \cup {<<step, out>>},
                                !.last = step, !.lastOut = out])
\* the portal answered page p of the list of category with js.data = data
sawList(kind, category, p, data) ==
    recorded(hist,
        [hist EXCEPT !.listed = Append(@, [kind |-> kind, category |-> category,
                                            p |-> p, data |-> data]),
                     !.last = "list", !.lastOut = "ok"])
\* the portal answered the create_link of item with outcome out
sawLink(kind, item, out) ==
    recorded(hist,
        [hist EXCEPT !.links = Append(@, [kind |-> kind, id |-> item.id,
                                           ok |-> out = "ok"]),
                     !.last = "link", !.lastOut = out])

loopVars == <<cats, catIdx, page, items, itemIdx, seriesRaw>>
listVars == <<channels, movies, series, m3uContent>>
idVars == <<build, body, portal, parked, once, twice, storedData>>

\* a request that goes out without waiting for the answer to the one in
\* flight (as a Promise.all over the calls would have it)
Send_m(to, r) ==
    /\ pc' = to
    /\ reqs' = recorded(reqs, Append(reqs, r))
    /\ pending' = pending + 1
    /\ resp' = resp

\* the awaited answer has arrived (pending - 1) and the code runs up to
\* its next `await fetch(...)`: the request goes out (+ 1) and the handler
\* is suspended at to
Send(to, r) ==
    /\ pc' = to
    /\ reqs' = recorded(reqs, Append(reqs, r))
    /\ pending' = (pending - 1) + 1
    /\ resp' = resp

\* the awaited answer has arrived and an exception reaches the catch of
\* the handler
Throw(message) ==
    /\ pc' = "done"
    /\ reqs' = reqs
    /\ pending' = pending - 1
    /\ resp' = errorResp(500, message)

\* the locals of one invocation of the handler (and what is observed of
\* it) when the request with body b arrives: index.ts 42-66, part_001 42-66
arrived(b) ==
    [body |-> b, pc |-> "recv", mac |-> <<>>, sid |-> "", token |-> "",
     channelsRaw |-> <<>>, cats |-> <<>>, catIdx |-> 0, page |-> 0,
     items |-> <<>>, itemIdx |-> 0, seriesRaw |-> <<>>,
     channels |-> <<>>, movies |-> <<>>, series |-> <<>>,
     m3uContent |-> NoText, reqs |-> <<>>, pending |-> 0, resp |-> NoResp,
     hist |-> NoHist]

NoBody == [portalUrl |-> <<>>, macAddress |-> <<>>, sessionId |-> ""]

\* no other conversion is in flight
NoConversion == [arrived(NoBody) EXCEPT !.pc = "off"]

\* the locals of the running invocation
running ==
    [body |-> body, pc |-> pc, mac |-> mac, sid |-> sid, token |-> token,
     channelsRaw |-> channelsRaw, cats |-> cats, catIdx |-> catIdx,
     page |-> page, items |-> items, itemIdx |-> itemIdx,
     seriesRaw |-> seriesRaw, channels |-> channels, movies |-> movies,
     series |-> series, m3uContent |-> m3uContent, reqs |-> reqs,
     pending |-> pending, resp |-> resp, hist |-> hist]

Init ==
    /\ build \in Builds
    /\ body \in Bodies
    /\ pc = "recv"
    /\ mac = <<>> /\ sid = "" /\ token = ""
    /\ channelsRaw = <<>> /\ cats = <<>> /\ catIdx = 0 /\ page = 0
    /\ items = <<>> /\ itemIdx = 0 /\ seriesRaw = <<>>
    /\ channels = <<>> /\ movies = <<>> /\ series = <<>>
    /\ m3uContent = NoText
    /\ reqs = <<>> /\ pending = 0 /\ resp = NoResp
    /\ hist = NoHist
    /\ db = <<>>
    /\ portal = "finite"
    /\ parked = NoConversion
    /\ once = NoText /\ twice = NoText
    /\ storedData = NoStored

\* a validation that forgets the device identifier
missingInput_m(b) == b.portalUrl = <<>>

\* if (!portalUrl || !macAddress): index.ts 44, part_001 43
missingInput(b) == b.portalUrl = <<>> \/ b.macAddress = <<>>

\* index.ts 42-58, part_001 42-53
Start ==
    /\ pc = "recv"
    /\ IF missingInput(body)
       THEN /\ pc' = "done"
            /\ resp' = errorResp(400, E_required)
            /\ UNCHANGED <<mac, sid, reqs, pending>>
       ELSE /\ \E u \in UUIDs :
                 sid' = IF body.sessionId # "" THEN body.sessionId ELSE u
            /\ mac' = formattedMac(body.macAddress)
            /\ pc' = "handshake"
            /\ reqs' = recorded(reqs,
                   Append(reqs, handshakeReq(formattedMac(body.macAddress))))
            /\ pending' = pending + 1
            /\ resp' = resp
    /\ UNCHANGED <<token, channelsRaw, loopVars, listVars, db, hist, idVars>>

\* handshake: index.ts 103-119, part_001 103-116
HandshakeResp ==
    /\ pc = "handshake"
    /\ \E out \in Outcomes, tok \in issuedTo(mac) :
         /\ out # "ok" => tok = ""
         /\ IF out = "non2xx"
            THEN Throw(E_handshake) /\ token' = token
                 /\ hist' = sawFail("handshake", out)
            ELSE IF out # "ok"
            THEN Throw(thrownBy(out)) /\ token' = token
                 /\ hist' = sawFail("handshake", out)
            ELSE IF tok = ""
            THEN Throw(E_token) /\ token' = token
                 /\ hist' = sawFail("handshake", "notoken")
            ELSE /\ token' = tok
                 /\ Send("channels", getChannelsReq(tok))
                 /\ hist' = sawOk("handshake")
    /\ UNCHANGED <<mac, sid, channelsRaw, loopVars, listVars, db, idVars>>

\* getChannelsRaw: index.ts 121-136, part_001 118-130
ChannelsResp ==
    /\ pc = "channels"
    /\ \E out \in Outcomes, data \in ChannelListings :
         /\ out # "ok" => data = <<>>
         /\ IF out = "non2xx"
            THEN Throw(E_channels) /\ channelsRaw' = channelsRaw
                 /\ hist' = sawFail("channels", out)
            ELSE IF out # "ok"
            THEN Throw(thrownBy(out)) /\ channelsRaw' = channelsRaw
                 /\ hist' = sawFail("channels", out)
            ELSE /\ channelsRaw' = data
                 /\ hist' = sawOk("channels")
                 /\ IF build = "scoped"
                    THEN Send("movCats", getCategoriesReq("movies"))
                    ELSE Send("movList", getVODOrderedListReq("vod"))
    /\ UNCHANGED <<mac, sid, token, loopVars, listVars, db, idVars>>

\* ---- scoped build: getVODRaw / getVODCategories / getVODItems ----

\* index.ts 64-81: both getVODRaw calls have returned; ser is seriesData.items
scopedStore(ser) ==
    /\ channels' = parseChannels(channelsRaw)
    /\ movies' = movies
    /\ series' = ser
    /\ m3uContent' = m3uContent
    /\ pc' = "store"
    /\ reqs' = reqs
    /\ pending' = pending - 1
    /\ resp' = resp

\* index.ts 154-167: getVODItems returned; next category, or the movies are
\* done and getVODRaw(series) starts with its getVODCategories
scopedNextCategory ==
    IF catIdx < Len(cats)
    THEN /\ cats' = cats /\ catIdx' = catIdx + 1 /\ page' = 1
         /\ items' = <<>> /\ itemIdx' = 0
         /\ Send("movPage", getVODItemsReq("movies", cats[catIdx + 1].id, 1))
    ELSE /\ cats' = <<>> /\ catIdx' = 0 /\ page' = 0
         /\ items' = <<>> /\ itemIdx' = 0
         /\ Send("serCats", getCategoriesReq("series"))

\* page++ (index.ts 281); the page numbers above MaxPages + 1 are one
\* value, the code never compares page with anything
nextPage(p) == IF p <= MaxPages THEN p + 1 ELSE p

\* index.ts 263-279: the for-loop over the items of a page from position
\* from; it stops at the next create_link, or ends the page and asks for
\* the next one
scopedWalk(its, from) ==
    LET n == nextWithCmd(its, from)
    IN  /\ cats' = cats /\ catIdx' = catIdx
        /\ IF n # 0
           THEN /\ items' = its /\ itemIdx' = n /\ page' = page
                /\ Send("movLink", getStreamLinkReq(its[n].cmd, "movies"))
           ELSE /\ items' = <<>> /\ itemIdx' = 0 /\ page' = nextPage(page)
                /\ Send("movPage",
                        getVODItemsReq("movies", cats[catIdx].id,
                                       nextPage(page)))

catsPc(kind) == IF kind = "movies" THEN "movCats" ELSE "serCats"

\* getVODCategories and the start of the loop of getVODRaw:
\* index.ts 149-162, 191-212
CategoriesResp(kind) ==
    /\ build = "scoped"
    /\ pc = catsPc(kind)
    /\ \E out \in Outcomes, data \in CategoryListings :
         /\ out # "ok" => data = <<>>
         /\ hist' = IF out = "ok" THEN sawOk(catsPc(kind))
                    ELSE sawFail(catsPc(kind), out)
         /\ IF out \in {"neterr", "badjson"}
            THEN Throw(thrownBy(out)) /\ UNCHANGED <<loopVars, listVars>>
            ELSE LET vodCategories ==
                         IF out = "non2xx" THEN <<>> ELSE parseCategories(data)
                 IN  IF vodCategories = <<>>
                     THEN IF kind = "movies"
                          THEN /\ Send("serCats", getCategoriesReq("series"))
                               /\ UNCHANGED <<loopVars, listVars>>
                          ELSE /\ scopedStore(<<>>)
                               /\ UNCHANGED loopVars
                     ELSE IF kind = "movies"
                          THEN /\ cats' = vodCategories /\ catIdx' = 1
                               /\ page' = 1
                               /\ Send("movPage",
                                       getVODItemsReq("movies",
                                                      vodCategories[1].id, 1))
                               /\ UNCHANGED <<items, itemIdx, seriesRaw,
                                              listVars>>
                          \* getSeriesEpisodes is called and is defined
                          \* nowhere: ReferenceError
                          ELSE /\ Throw(E_reference)
                               /\ cats' = vodCategories /\ catIdx' = 1
                               /\ UNCHANGED <<page, items, itemIdx, seriesRaw,
                                              listVars>>
    /\ UNCHANGED <<mac, sid, token, channelsRaw, db, idVars>>

\* one page of getVODItems: index.ts 245-263
PageResp ==
    /\ build = "scoped"
    /\ pc = "movPage"
    /\ \E out \in Outcomes, data \in ItemPages(catIdx, page) :
         /\ out # "ok" => data = <<>>
         /\ portal = "finite" =>
              /\ page > MaxPages => data = <<>>
              /\ Len(data) + listedCount(hist.listed, "movies") <= MaxCatalog
         /\ hist' = IF out = "ok"
                    THEN sawList("movies", cats[catIdx].id, page, data)
                    ELSE sawFail("movPage", out)
         /\ IF out \in {"neterr", "badjson"}
            THEN Throw(thrownBy(out)) /\ UNCHANGED loopVars
            ELSE IF out = "non2xx" \/ data = <<>>
            THEN scopedNextCategory /\ seriesRaw' = seriesRaw
            ELSE scopedWalk(data, 1) /\ seriesRaw' = seriesRaw
    /\ UNCHANGED <<mac, sid, token, channelsRaw, listVars, db, idVars>>

\* ---- flat build: getVODOrderedList / parseVODItems ----

listPc(kind) == IF kind = "movies" THEN "movList" ELSE "serList"
linkPc(kind) == IF kind = "movies" THEN "movLink" ELSE "serLink"

\* part_001 66-77: both parseVODItems calls have returned
flatStore(cs, ms, ss) ==
    /\ channels' = cs
    /\ movies' = ms
    /\ series' = ss
    /\ m3uContent' = generateM3U(cs, ms, ss)
    /\ items' = <<>> /\ itemIdx' = 0
    /\ pc' = "store"
    /\ reqs' = reqs
    /\ pending' = pending - 1
    /\ resp' = resp

\* part_001 61-63, 183-199: the for-loop of parseVODItems(kind) over its
\* from position from; sraw is seriesRaw, whose parse follows the movies'
flatParse(kind, its, from, sraw, cs, ms, ss) ==
    LET n == nextWithCmd(its, from)
        n2 == nextWithCmd(sraw, 1)
    IN  IF n # 0
        THEN /\ items' = its /\ itemIdx' = n
             /\ channels' = cs /\ movies' = ms /\ series' = ss
             /\ m3uContent' = m3uContent
             /\ Send(linkPc(kind), getStreamLinkReq(its[n].cmd, kind))
        ELSE IF kind = "movies" /\ n2 # 0
        THEN /\ items' = sraw /\ itemIdx' = n2
             /\ channels' = cs /\ movies' = ms /\ series' = ss
             /\ m3uContent' = m3uContent
             /\ Send("serLink", getStreamLinkReq(sraw[n2].cmd, "series"))
        ELSE flatStore(cs, ms, ss)

\* getVODOrderedList: part_001 57-63, 132-144
ListResp(kind) ==
    /\ build = "flat"
    /\ pc = listPc(kind)
    /\ \E out \in Outcomes,
          data \in ItemPages(IF kind = "movies" THEN 0 ELSE 9, 1) :
         /\ out # "ok" => data = <<>>
         /\ Len(data) <= MaxCatalog
         /\ hist' = IF out = "ok" THEN sawList(kind, <<"*">>, 1, data)
                    ELSE sawFail(listPc(kind), out)
         /\ IF out = "non2xx"
            THEN /\ Throw(IF kind = "movies" THEN E_vodList ELSE E_seriesList)
                 /\ UNCHANGED <<loopVars, listVars>>
            ELSE IF out # "ok"
            THEN Throw(thrownBy(out)) /\ UNCHANGED <<loopVars, listVars>>
            ELSE IF kind = "movies"
            THEN /\ items' = data
                 /\ Send("serList", getVODOrderedListReq("series"))
                 /\ UNCHANGED <<cats, catIdx, page, itemIdx, seriesRaw,
                                listVars>>
            ELSE /\ seriesRaw' = data
                 /\ flatParse("movies", items, 1, data,
                              parseChannels(channelsRaw), <<>>, <<>>)
                 /\ UNCHANGED <<cats, catIdx, page>>
    /\ UNCHANGED <<mac, sid, token, channelsRaw, db, idVars>>

\* getStreamLink and the rest of the loop that called it:
\* index.ts 214-232, 267-279; part_001 146-161, 187-199
LinkResp ==
    /\ pc \in {"movLink", "serLink"}
    /\ LET kind == IF pc = "movLink" THEN "movies" ELSE "series"
           item == items[itemIdx]
       IN  \E out \in LinkOutcomes :
             /\ out = "ok" =>
                  Len(IF kind = "movies" THEN movies ELSE series) < MaxCatalog
             /\ hist' = sawLink(kind, item, out)
             /\ IF out \in {"neterr", "badjson"}
                THEN Throw(thrownBy(out)) /\ UNCHANGED <<loopVars, listVars>>
                ELSE LET streamUrl ==
                             IF out = "ok" THEN ResolvedUrl(item.cmd) ELSE <<>>
                     IN  IF build = "scoped"
                         THEN /\ movies' =
                                   IF streamUrl # <<>>
                                   THEN Append(movies,
                                          scopedVODItem(item, streamUrl, kind,
                                                        cats[catIdx].name))
                                   ELSE movies
                              /\ scopedWalk(items, itemIdx + 1)
                              /\ UNCHANGED <<seriesRaw, channels, series,
                                             m3uContent>>
                         ELSE /\ flatParse(kind, items, itemIdx + 1, seriesRaw,
                                   channels,
                                   IF kind = "movies" /\ streamUrl # <<>>
                                   THEN Append(movies,
                                          flatVODItem(item, streamUrl, kind))
                                   ELSE movies,
                                   IF kind = "series" /\ streamUrl # <<>>
                                   THEN Append(series,
                                          flatVODItem(item, streamUrl, kind))
                                   ELSE series)
                              /\ UNCHANGED <<cats, catIdx, page, seriesRaw>>
    /\ UNCHANGED <<mac, sid, token, channelsRaw, db, idVars>>

\* ---- storage and the success response ----

\* the object given to upsert (index.ts 71-81) or insert (part_001 70-77);
\* the columns the flat build leaves out take the defaults of the table
row ==
    [user_session_id |-> sid,
     portal_url |-> body.portalUrl,
     mac_address |-> body.macAddress,
     channels_data |-> IF build = "scoped" THEN channels ELSE <<>>,
     movies_data |-> IF build = "scoped" THEN movies ELSE <<>>,
     series_data |-> IF build = "scoped" THEN series ELSE <<>>,
     channel_count |-> Len(channels),
     movie_count |-> Len(movies),
     series_count |-> Len(series)]

\* a handler that looks at the result of the write and raises its error
StoreResp_m ==
    /\ pc = "store"
    /\ \E accepted \in BOOLEAN :
         /\ db' = IF accepted
                     /\ \A i \in 1..Len(db) : db[i].user_session_id # sid
                  THEN Append(db, row)
                  ELSE db
         /\ resp' = IF accepted
                    THEN successResp(sid, channels, movies, series,
                                     IF build = "flat" THEN m3uContent ELSE NoText)
                    ELSE errorResp(500, "storage error")
    /\ pc' = "done"
    /\ UNCHANGED <<mac, sid, token, channelsRaw, loopVars, listVars, reqs,
                   pending, hist, idVars>>

\* the write reaches the table unless the storage refuses it; the result
\* of the awaited call is not looked at (index.ts 71-90, part_001 70-92)
StoreResp ==
    /\ pc = "store"
    /\ \E accepted \in BOOLEAN :
         db' = IF accepted
                  /\ \A i \in 1..Len(db) : db[i].user_session_id # sid
               THEN Append(db, row)
               ELSE db
    /\ resp' = successResp(sid, channels, movies, series,
                           IF build = "flat" THEN m3uContent ELSE NoText)
    /\ pc' = "done"
    /\ UNCHANGED <<mac, sid, token, channelsRaw, loopVars, listVars, reqs,
                   pending, hist, idVars>>

Next ==
    \/ Start
    \/ HandshakeResp
    \/ ChannelsResp
    \/ \E kind \in Kinds : CategoriesResp(kind)
    \/ PageResp
    \/ \E kind \in Kinds : ListResp(kind)
    \/ LinkResp
    \/ StoreResp

Spec == Init /\ [][Next]_vars

----------------------------------------------------------------------------
(* The category source against a portal whose listings need not end: any   *)
(* page number may be answered with items.  Every fetch the handler awaits *)
(* settles and the runtime then resumes the handler, hence the fairness.   *)

InitLoop ==
    /\ build = "scoped"
    /\ body \in Bodies
    /\ pc = "recv"
    /\ mac = <<>> /\ sid = "" /\ token = ""
    /\ channelsRaw = <<>> /\ cats = <<>> /\ catIdx = 0 /\ page = 0
    /\ items = <<>> /\ itemIdx = 0 /\ seriesRaw = <<>>
    /\ channels = <<>> /\ movies = <<>> /\ series = <<>>
    /\ m3uContent = NoText
    /\ reqs = <<>> /\ pending = 0 /\ resp = NoResp
    /\ hist = NoHist
    /\ db = <<>>
    /\ portal = "endless"
    /\ parked = NoConversion
    /\ once = NoText /\ twice = NoText
    /\ storedData = NoStored

NextLoop ==
    \/ Start
    \/ HandshakeResp
    \/ ChannelsResp
    \/ \E kind \in Kinds : CategoriesResp(kind)
    \/ PageResp
    \/ LinkResp
    \/ StoreResp

SpecLoop == InitLoop /\ [][NextLoop]_vars /\ WF_vars(NextLoop)

----------------------------------------------------------------------------
(* Two conversions in flight.  Deno.serve starts one invocation of the     *)
(* handler per request; an invocation runs until its next await, and the   *)
(* runtime may then resume the other one.  The variables hold the locals   *)
(* of the invocation that runs, parked those of the one that waits; the    *)
(* source keeps nothing else between two awaits but the table.             *)

\* the runtime resumes the invocation whose locals are c
resume(c) ==
    /\ body' = c.body /\ pc' = c.pc /\ mac' = c.mac /\ sid' = c.sid
    /\ token' = c.token /\ channelsRaw' = c.channelsRaw
    /\ cats' = c.cats /\ catIdx' = c.catIdx /\ page' = c.page
    /\ items' = c.items /\ itemIdx' = c.itemIdx /\ seriesRaw' = c.seriesRaw
    /\ channels' = c.channels /\ movies' = c.movies /\ series' = c.series
    /\ m3uContent' = c.m3uContent /\ reqs' = c.reqs
    /\ pending' = c.pending /\ resp' = c.resp /\ hist' = c.hist

\* a token kept in a variable of the module, shared by the invocations,
\* instead of the `const token` of the handler
Switch_m ==
    /\ parked.pc # "off"
    /\ resume([parked EXCEPT !.token = token])
    /\ parked' = running
    /\ UNCHANGED <<build, db, portal, once, twice, storedData>>

\* the invocation that runs is suspended at an await (or has not started,
\* or has returned) and the other one goes on
Switch ==
    /\ parked.pc # "off"
    /\ resume(parked)
    /\ parked' = running
    /\ UNCHANGED <<build, db, portal, once, twice, storedData>>

\* the portal of the two conversions answers every call and lists no
\* channel, at most MaxShared categories and at most MaxShared movies and
\* episodes, each with a cmd and on the first page of its listing
lean ==
    /\ hist.fail = {}
    /\ hist.lastOut \in {"", "ok"}
    /\ channelsRaw = <<>>
    /\ Len(cats) <= MaxShared
    /\ Len(items) <= MaxShared
    /\ Len(seriesRaw) <= MaxShared
    /\ \A kind \in Kinds : listedCount(hist.listed, kind) <= MaxShared
    /\ \A i \in 1..Len(hist.listed) :
         hist.listed[i].p > 1 => hist.listed[i].data = <<>>
    /\ \A i \in 1..Len(items) : items[i].cmd # <<>>
    /\ \A i \in 1..Len(seriesRaw) : seriesRaw[i].cmd # <<>>

InitTwo ==
    /\ build \in Builds
    /\ body = [portalUrl |-> PortalScenario, macAddress |-> MacScenario,
               sessionId |-> "s1"]
    /\ pc = "recv"
    /\ mac = <<>> /\ sid = "" /\ token = ""
    /\ channelsRaw = <<>> /\ cats = <<>> /\ catIdx = 0 /\ page = 0
    /\ items = <<>> /\ itemIdx = 0 /\ seriesRaw = <<>>
    /\ channels = <<>> /\ movies = <<>> /\ series = <<>>
    /\ m3uContent = NoText
    /\ reqs = <<>> /\ pending = 0 /\ resp = NoResp
    /\ hist = NoHist
    /\ db = <<>>
    /\ portal = "finite"
    /\ parked = arrived([portalUrl |-> PortalScenario,
                         macAddress |-> MacOther, sessionId |-> ""])
    /\ once = NoText /\ twice = NoText
    /\ storedData = NoStored

NextTwo ==
    \/ Start
    \/ HandshakeResp /\ lean'
    \/ ChannelsResp /\ lean'
    \/ (\E kind \in Kinds : CategoriesResp(kind)) /\ lean'
    \/ PageResp /\ lean'
    \/ (\E kind \in Kinds : ListResp(kind)) /\ lean'
    \/ LinkResp /\ lean'
    \/ StoreResp
    \/ Switch

SpecTwo == InitTwo /\ [][NextTwo]_vars

----------------------------------------------------------------------------
(* Device-identity normalization on its own: the handler's lines 55-56     *)
(* applied to a free-form identifier, and applied again to the result.     *)

MacAlphabet == {"a", "1", "G", ":", "-", "\n"}

FreeMacs == SeqsUpTo(MacAlphabet, MaxMacLen) \ {<<>>}

HexPairs == {<<"1", "a">>, <<"F", "0">>}
Separators == {<<>>, <<":">>, <<"-">>}

\* 12 hex digits, each gap between two pairs with or without a separator
Hex12Macs ==
    {d[1] \o g[1] \o d[2] \o g[2] \o d[3] \o g[3] \o d[4] \o g[4] \o d[5]
        \o g[5] \o d[6] :
        d \in [1..6 -> HexPairs], g \in [1..5 -> Separators]}

idleHandler ==
    /\ build = "scoped"
    /\ mac = <<>> /\ sid = "" /\ token = ""
    /\ channelsRaw = <<>> /\ cats = <<>> /\ catIdx = 0 /\ page = 0
    /\ items = <<>> /\ itemIdx = 0 /\ seriesRaw = <<>>
    /\ reqs = <<>> /\ pending = 0 /\ resp = NoResp /\ db = <<>>
    /\ hist = NoHist
    /\ portal = "finite"
    /\ parked = NoConversion
    /\ once = NoText /\ twice = NoText
    /\ storedData = NoStored

InitMac ==
    /\ idleHandler
    /\ body \in [portalUrl : {PortalScenario},
                 macAddress : FreeMacs \cup Hex12Macs,
                 sessionId : {""}]
    /\ channels = <<>> /\ movies = <<>> /\ series = <<>>
    /\ m3uContent = NoText
    /\ pc = "mac"

NormalizeOnce ==
    /\ pc = "mac"
    /\ once' = formattedMac(body.macAddress)
    /\ pc' = "mac1"
    /\ UNCHANGED <<build, body, mac, sid, token, channelsRaw, loopVars,
                   listVars, reqs, pending, resp, db, hist, portal, parked,
                   twice, storedData>>

NormalizeTwice ==
    /\ pc = "mac1"
    /\ twice' = formattedMac(once)
    /\ pc' = "mac2"
    /\ UNCHANGED <<build, body, mac, sid, token, channelsRaw, loopVars,
                   listVars, reqs, pending, resp, db, hist, portal, parked,
                   once, storedData>>

NextMac == NormalizeOnce \/ NormalizeTwice

SpecMac == InitMac /\ [][NextMac]_vars

----------------------------------------------------------------------------
(* The serializer on its own: generateM3U applied to lists of entities of  *)
(* the shapes parseChannels, getVODItems and parseVODItems produce.        *)

channelEntity(id, name, cmd, logo) ==
    [id |-> id, name |-> name, cmd |-> cmd, logo |-> logo, number |-> id,
     group |-> LiveTV]

vodEntity(id, name, cmd, poster, kind) ==
    [id |-> id, name |-> name, cmd |-> cmd, poster |-> poster,
     group |-> IF kind = "movies" THEN MoviesLabel ELSE SeriesLabel]

ChannelEntities ==
    {channelEntity(id, name, cmd, IF id = <<>> THEN <<"L">> ELSE <<>>) :
        id \in {<<>>, <<"1">>},
        name \in {News, <<"A", LF, "B">>},
        cmd \in {<<>>, FfmpegUrlX1}}

VODEntities(kind) ==
    {vodEntity(id, <<"M">>, cmd, IF id = <<>> THEN <<"P">> ELSE <<>>, kind) :
        id \in {<<>>, <<"7">>},
        cmd \in {UrlX1, <<"f", "f", "r", "t", " ", "u">>}}

InitM3U ==
    /\ idleHandler
    /\ body = [portalUrl |-> PortalScenario, macAddress |-> MacScenario,
               sessionId |-> ""]
    /\ channels \in SeqsUpTo(ChannelEntities, MaxEntities)
    /\ movies \in SeqsUpTo(VODEntities("movies"), MaxEntities)
    /\ series \in SeqsUpTo(VODEntities("series"), MaxEntities)
    /\ m3uContent = NoText
    /\ pc = "m3u"

Serialize ==
    /\ pc = "m3u"
    /\ m3uContent' = generateM3U(channels, movies, series)
    /\ pc' = "m3uDone"
    /\ UNCHANGED <<build, body, mac, sid, token, channelsRaw, loopVars,
                   channels, movies, series, reqs, pending, resp, db, hist,
                   portal, parked, once, twice, storedData>>

NextM3U == Serialize

SpecM3U == InitM3U /\ [][NextM3U]_vars

\* stream commands around the three engine tokens
UrlPrefixes ==
    {<<>>, T_ffmpeg \o <<" ">>, T_ffrt \o <<" ">>, T_ffrt2k \o <<" ">>,
     T_ffmpeg, T_ffrt2k, <<"f", "f", "r", "t", "2", " ">>, T_http,
     <<" ">>, <<"x">>}

UrlRests ==
    {<<>>, UrlX1, <<"u">>, T_ffmpeg \o <<" ", "u">>, <<" ", "u">>}

UrlSamples == {p \o r : p \in UrlPrefixes, r \in UrlRests}

\* exactly one entity, of any kind, whose cmd is a sample
InitClean ==
    /\ idleHandler
    /\ body = [portalUrl |-> PortalScenario, macAddress |-> MacScenario,
               sessionId |-> ""]
    /\ \E u \in UrlSamples, k \in {"channels", "movies", "series"} :
         /\ channels = IF k = "channels"
                       THEN <<channelEntity(<<"1">>, News, u, <<>>)>>
                       ELSE <<>>
         /\ movies = IF k = "movies"
                     THEN <<vodEntity(<<"1">>, News, u, <<>>, "movies")>>
                     ELSE <<>>
         /\ series = IF k = "series"
                     THEN <<vodEntity(<<"1">>, News, u, <<>>, "series")>>
                     ELSE <<>>
    /\ m3uContent = NoText
    /\ pc = "m3u"

SpecClean == InitClean /\ [][NextM3U]_vars

----------------------------------------------------------------------------
(* The page of the client: one sessionId per page load, sent with every    *)
(* submission; the results modal shows the lists loadStoredData reads back *)
(* for the sessionId of the latest response.  The storage is up: it        *)
(* refuses a write only for the UNIQUE constraint on user_session_id.      *)

\* .select('channels_data, movies_data, series_data')
\* .eq('user_session_id', s).maybeSingle(), then data.x || []
storedFor(s) ==
    LET rows == SelectSeq(db, LAMBDA r : r.user_session_id = s)
    IN  IF rows = <<>> THEN NoStored
        ELSE [loaded |-> TRUE,
              channels |-> rows[1].channels_data,
              movies |-> rows[1].movies_data,
              series |-> rows[1].series_data]

\* loadStoredData: part_000 111-135
LoadStoredData ==
    /\ pc = "done"
    /\ resp.success /\ resp.sessionId # ""
    /\ storedFor(resp.sessionId).loaded
    /\ storedData' = storedFor(resp.sessionId)
    /\ UNCHANGED <<build, body, pc, mac, sid, token, channelsRaw, loopVars,
                   listVars, reqs, pending, resp, db, hist, portal, parked,
                   once, twice>>

\* handleSubmit once more, with the form and the sessionId of the page:
\* part_000 66-80
Resubmit ==
    /\ pc = "done"
    /\ resume(arrived(body))
    /\ UNCHANGED <<build, db, portal, parked, once, twice, storedData>>

\* the storage stores every row whose user_session_id is new
storageUp ==
    (\A i \in 1..Len(db) : db[i].user_session_id # sid) => db' # db

InitAgain ==
    /\ build \in Builds
    /\ body = [portalUrl |-> PortalScenario, macAddress |-> MacScenario,
               sessionId |-> "s1"]
    /\ pc = "recv"
    /\ mac = <<>> /\ sid = "" /\ token = ""
    /\ channelsRaw = <<>> /\ cats = <<>> /\ catIdx = 0 /\ page = 0
    /\ items = <<>> /\ itemIdx = 0 /\ seriesRaw = <<>>
    /\ channels = <<>> /\ movies = <<>> /\ series = <<>>
    /\ m3uContent = NoText
    /\ reqs = <<>> /\ pending = 0 /\ resp = NoResp
    /\ hist = NoHist
    /\ db = <<>>
    /\ portal = "finite"
    /\ parked = NoConversion
    /\ once = NoText /\ twice = NoText
    /\ storedData = NoStored

NextAgain ==
    \/ Start
    \/ HandshakeResp /\ lean'
    \/ ChannelsResp /\ lean'
    \/ (\E kind \in Kinds : CategoriesResp(kind)) /\ lean'
    \/ PageResp /\ lean'
    \/ (\E kind \in Kinds : ListResp(kind)) /\ lean'
    \/ LinkResp /\ lean'
    \/ StoreResp /\ storageUp
    \/ Resubmit
    \/ LoadStoredData

SpecAgain == InitAgain /\ [][NextAgain]_vars

----------------------------------------------------------------------------
(* The per-type playlist of the client: generateM3U(type) of the page,     *)
(* applied on a download to whatever lists the page holds, or to none.     *)

\* item.f of a record read from JSON: an absent field is undefined
fieldOf(item, f) == IF f \in DOMAIN item THEN item[f] ELSE <<>>

\* a generator that looks at item.poster only
clientArt_m(item) == fieldOf(item, "poster")

\* item.logo || item.poster: part_000 144
clientArt(item) ==
    IF fieldOf(item, "logo") # <<>> THEN fieldOf(item, "logo")
    ELSE fieldOf(item, "poster")

\* the body of the for-loop: part_000 144-153
clientEntry(item) ==
    LET tvgLogo == IF clientArt(item) # <<>>
                   THEN T_tvglogo \o clientArt(item) \o <<"\"">> ELSE <<>>
        tvgId == IF item.id # <<>> THEN T_tvgid \o item.id \o <<"\"">> ELSE <<>>
        groupTitle == IF item.group # <<>>
                      THEN T_group \o item.group \o <<"\"">> ELSE <<>>
        streamUrl == IF item.cmd # <<>> /\ ~startsWith(item.cmd, T_http)
                     THEN stripEnginePrefix(item.cmd)
                     ELSE item.cmd
    IN  T_EXTINF \o tvgId \o tvgLogo \o groupTitle \o <<",">> \o item.name
        \o <<LF>> \o streamUrl \o <<LF>>

ClientTypes == {"channels", "movies", "series"}

\* generateM3U(type): part_000 137-157
clientGenerateM3U(type) ==
    IF ~storedData.loaded THEN <<>>
    ELSE LET its == IF type = "channels" THEN storedData.channels
                    ELSE IF type = "movies" THEN storedData.movies
                    ELSE storedData.series
         IN  T_EXTM3U \o <<LF>>
             \o Concat([i \in 1..Len(its) |-> clientEntry(its[i])])

downloaded(type) ==
    IF type = "channels" THEN "dlChannels"
    ELSE IF type = "movies" THEN "dlMovies" ELSE "dlSeries"

InitClient ==
    /\ idleHandler
    /\ body = [portalUrl |-> PortalScenario, macAddress |-> MacScenario,
               sessionId |-> "s1"]
    /\ channels = <<>> /\ movies = <<>> /\ series = <<>>
    /\ m3uContent = NoText
    /\ pc = "page"

\* the page has read some lists back, or has read none
Loaded ==
    /\ pc = "page"
    /\ \E cs \in SeqsUpTo(ChannelEntities, MaxEntities),
          ms \in SeqsUpTo(VODEntities("movies"), MaxEntities),
          ss \in SeqsUpTo(VODEntities("series"), MaxEntities) :
         storedData' = [loaded |-> TRUE, channels |-> cs, movies |-> ms,
                        series |-> ss]
    /\ pc' = "modal"
    /\ UNCHANGED <<build, body, mac, sid, token, channelsRaw, loopVars,
                   listVars, reqs, pending, resp, db, hist, portal, parked,
                   once, twice>>

\* handleDownload(type): part_000 159-170
Download(type) ==
    /\ pc \in {"page", "modal"}
    /\ m3uContent' = clientGenerateM3U(type)
    /\ pc' = downloaded(type)
    /\ UNCHANGED <<build, body, mac, sid, token, channelsRaw, loopVars,
                   channels, movies, series, reqs, pending, resp, db, hist,
                   portal, parked, once, twice, storedData>>

NextClient ==
    \/ Loaded
    \/ \E type \in ClientTypes : Download(type)

SpecClient == InitClient /\ [][NextClient]_vars

----------------------------------------------------------------------------
(* Properties                                                              *)

Last(q) == q[Len(q)]

ListingSteps ==
    {"channels", "movCats", "serCats", "movPage", "movList", "serList"}

\* js.data of every answered page of kind, in the order of the answers
RECURSIVE catalogOf(_, _)
catalogOf(listed, kind) ==
    IF listed = <<>> THEN <<>>
    ELSE (IF Head(listed).kind = kind THEN Head(listed).data ELSE <<>>)
         \o catalogOf(Tail(listed), kind)

idsOf(q) == [i \in 1..Len(q) |-> q[i].id]

\* the ordered-list requests of one listing, in the order they were issued
pageReqs(type, category) ==
    SelectSeq(reqs, LAMBDA r : /\ r.action = "get_ordered_list"
                               /\ r.type = type
                               /\ r.category = category)

\* the listing calls that failed; a page of a category that answers
\* non-2xx is the end of that category's data, not a failure
listingFailures ==
    {f \in hist.fail : f[1] \in ListingSteps /\ f # <<"movPage", "non2xx">>}

\* C1: if a catalog-listing call fails (channel listing, a category
\* listing or an ordered-list call does not answer 2xx JSON), the response
\* is success:false and no playlist, counts or stored row are produced.
C1_ListingFailureFailsConversion ==
    (pc = "done" /\ listingFailures # {})
        => /\ resp.success = FALSE
           /\ resp.m3uContent = NoText
           /\ resp.totalCount = 0
           /\ db = <<>>

\* C2: a stream-link resolution that fails with a non-2xx status, a body
\* that is not JSON or a missing js.cmd never ends the conversion: the
\* handler has not answered 500 and goes on with the items after it.
C2_LinkFailureOnlyDropsItem ==
    (hist.last = "link" /\ hist.lastOut \in {"non2xx", "badjson", "nocmd"})
        => /\ resp.status # 500
           /\ pc # "done"

\* C3: every channel, movie and episode of a success response has a
\* non-empty cmd.
C3_EmittedCmdNonEmpty ==
    resp.success
        => /\ \A i \in 1..Len(channels) : channels[i].cmd # <<>>
           /\ \A i \in 1..Len(movies) : movies[i].cmd # <<>>
           /\ \A i \in 1..Len(series) : series[i].cmd # <<>>

\* C4: a body without portalUrl or without macAddress is answered 400 with
\* success:false and the required-fields error, and no portal request and
\* no storage write is ever made in that run.
C4_MissingInputNoNetwork ==
    (body.portalUrl = <<>> \/ body.macAddress = <<>>)
        => /\ reqs = <<>>
           /\ pending = 0
           /\ db = <<>>
           /\ pc \in {"recv", "done"}
           /\ pc = "done" =>
                /\ resp.status = 400
                /\ resp.success = FALSE
                /\ resp.error = "Portal URL and MAC address are required"

C4_Witness ==
    /\ pc = "done"
    /\ body.portalUrl # <<>>
    /\ body.macAddress = <<>>
    /\ resp.status = 400

\* C5: when the channel listing answers non-2xx the response is
\* success:false with the channel-listing error, there is no playlist and
\* no stored row, and the channel listing is the last portal request.
C5_ChannelListingFailure ==
    (<<"channels", "non2xx">> \in hist.fail)
        => /\ pc = "done"
           /\ resp.status = 500
           /\ resp.success = FALSE
           /\ resp.error = "Failed to get channels: "
           /\ resp.m3uContent = NoText
           /\ m3uContent = NoText
           /\ db = <<>>
           /\ Last(reqs).action = "get_all_channels"
           /\ \A i \in 1..Len(reqs) : reqs[i].type \notin {"vod", "series"}

C5_Witness ==
    /\ <<"channels", "non2xx">> \in hist.fail
    /\ pc = "done"
    /\ resp.status = 500

linkMisses == {i \in 1..Len(hist.links) : ~hist.links[i].ok}

\* the items of the answered pages of kind that have a cmd and are not the
\* item of resolution miss
expectedWithout(kind, miss) ==
    SelectSeq(catalogOf(hist.listed, kind),
              LAMBDA it : /\ it.cmd # <<>>
                          /\ ~(miss.kind = kind /\ miss.id = it.id))

\* C6: if exactly one create_link returns no URL and every other call
\* succeeds, the response is success:true, the movies and series are the
\* listed items without that one and without those lacking a cmd, and the
\* counts are the lengths of these lists.
C6_OneMissStillSucceeds ==
    (/\ pc = "done"
     /\ hist.fail = {}
     /\ Cardinality(linkMisses) = 1
     /\ ~(hist.last = "link" /\ hist.lastOut \in {"neterr", "badjson"}))
        => LET miss == hist.links[CHOOSE i \in linkMisses : TRUE]
               ms == expectedWithout("movies", miss)
               ss == expectedWithout("series", miss)
           IN  /\ resp.success
               /\ idsOf(movies) = idsOf(ms)
               /\ idsOf(series) = idsOf(ss)
               /\ resp.movieCount = Len(ms)
               /\ resp.seriesCount = Len(ss)
               /\ resp.totalCount = Len(channels) + Len(ms) + Len(ss)

\* C7: every VOD listing asks for pages 1, 2, 3, ... in order, goes on
\* until a page has no items, asks for no page after that one, and the
\* result is made of the items of the pages before it.
C7_Pagination ==
    /\ \A i \in 1..Len(reqs) :
         reqs[i].action = "get_ordered_list" =>
            LET ps == pageReqs(reqs[i].type, reqs[i].category)
            IN  \A j \in 1..Len(ps) : ps[j].p = j
    /\ \A i \in 1..Len(hist.listed) :
         LET e == hist.listed[i]
             ps == pageReqs(portalType(e.kind), e.category)
         IN  /\ e.data = <<>> => Len(ps) = e.p
             /\ (e.data # <<>> /\ pc = "done" /\ resp.success)
                    => Len(ps) > e.p
    /\ (pc = "done" /\ resp.success) =>
         \A kind \in Kinds :
            LET okIds == {hist.links[i].id :
                            i \in {j \in 1..Len(hist.links) :
                                     /\ hist.links[j].kind = kind
                                     /\ hist.links[j].ok}}
            IN  idsOf(IF kind = "movies" THEN movies ELSE series)
                  = SelectSeq(idsOf(catalogOf(hist.listed, kind)),
                              LAMBDA id : id \in okIds)

UpperHex == {"0", "1", "2", "3", "4", "5", "6", "7", "8", "9",
             "A", "B", "C", "D", "E", "F"}

sixGroups(t) ==
    /\ Len(t) = 17
    /\ \A i \in 1..17 : IF i % 3 = 0 THEN t[i] = ":" ELSE t[i] \in UpperHex

\* C8: normalizing a device identifier twice gives the same as normalizing
\* it once, and 12 hex digits with or without separators give 6 uppercase
\* two-digit groups joined by ':'.
C8_NormalizeIdempotent ==
    /\ pc = "mac2" => twice = once
    /\ (pc \in {"mac1", "mac2"} /\ body.macAddress \in Hex12Macs)
          => sixGroups(once)

isExtinf(line) == startsWith(line, T_EXTINF_TAG)

\* C9: the playlist of n entities starts with the line #EXTM3U, has
\* 1 + 2n lines and n #EXTINF lines, and every #EXTINF line is followed by
\* one line that is not an #EXTINF line.
C9_PlaylistStructure ==
    pc = "m3uDone" =>
        LET ls == Lines(m3uContent)
            n == Len(channels) + Len(movies) + Len(series)
        IN  /\ ls[1] = T_EXTM3U
            /\ Len(ls) = 1 + 2 * n
            /\ Cardinality({i \in 1..Len(ls) : isExtinf(ls[i])}) = n
            /\ \A i \in 1..Len(ls) :
                 isExtinf(ls[i]) =>
                    /\ i < Len(ls)
                    /\ ~isExtinf(ls[i + 1])
                    /\ i + 2 <= Len(ls) => isExtinf(ls[i + 2])

EngineTokens == {T_ffmpeg, T_ffrt, T_ffrt2k}

theCmd ==
    IF channels # <<>> THEN channels[1].cmd
    ELSE IF movies # <<>> THEN movies[1].cmd
    ELSE series[1].cmd

\* C10: the URL line of an entity is its cmd when the cmd starts with
\* 'http'; else, when the cmd starts with 'ffmpeg ', 'ffrt ' or 'ffrt2k ',
\* it is the cmd without that token and its space; else it is the cmd.
C10_PrefixStrip ==
    pc = "m3uDone" =>
        LET c == theCmd
            u == Lines(m3uContent)[3]
        IN  IF startsWith(c, T_http) THEN u = c
            ELSE IF \E t \in EngineTokens : startsWith(c, t \o <<" ">>)
            THEN \E t \in EngineTokens : c = t \o <<" ">> \o u
            ELSE u = c

C10_Witness ==
    /\ pc = "m3uDone"
    /\ theCmd = T_ffrt2k \o <<" ", "u">>
    /\ Lines(m3uContent)[3] = <<"u">>

\* the entities given to the serializer, in the order it writes them; art
\* is the logo of a channel and the poster of a movie or an episode
serialized ==
    [i \in 1..Len(channels) |->
        [id |-> channels[i].id, art |-> channels[i].logo,
         group |-> channels[i].group, name |-> channels[i].name]]
    \o [i \in 1..Len(movies) |->
        [id |-> movies[i].id, art |-> movies[i].poster,
         group |-> movies[i].group, name |-> movies[i].name]]
    \o [i \in 1..Len(series) |->
        [id |-> series[i].id, art |-> series[i].poster,
         group |-> series[i].group, name |-> series[i].name]]

\* the #EXTINF line the playlist format asks for: tvg-id, tvg-logo and
\* group-title in this order, each only when its value is not empty, then
\* a comma and the display name
extinfOf(e) ==
    T_EXTINF
    \o (IF e.id # <<>> THEN T_tvgid \o e.id \o <<"\"">> ELSE <<>>)
    \o (IF e.art # <<>> THEN T_tvglogo \o e.art \o <<"\"">> ELSE <<>>)
    \o (IF e.group # <<>> THEN T_group \o e.group \o <<"\"">> ELSE <<>>)
    \o <<",">> \o e.name

\* C11: every #EXTINF line of the playlist is the line of one of the
\* entities, with the attributes tvg-id, tvg-logo, group-title in this
\* order, each present exactly when its value is not empty, and ending with
\* a comma and the display name; every entity has its line.
C11_ExtinfAttributes ==
    pc = "m3uDone" =>
        LET ls == Lines(m3uContent)
            es == serialized
        IN  /\ \A i \in 1..Len(ls) :
                 isExtinf(ls[i]) => \E k \in 1..Len(es) : ls[i] = extinfOf(es[k])
            /\ \A k \in 1..Len(es) :
                 \E i \in 1..Len(ls) : ls[i] = extinfOf(es[k])

\* the number of lines of a playlist that start with #EXTINF
extinfCount(m3u) ==
    LET ls == Lines(m3u) IN Cardinality({i \in 1..Len(ls) : isExtinf(ls[i])})

\* C12: a success response carries channelCount, movieCount and seriesCount
\* equal to the numbers of channels, movies and series of the conversion
\* and totalCount equal to their sum; when it carries m3uContent,
\* totalCount is the number of #EXTINF lines of that playlist.
C12_Counts ==
    resp.success =>
        /\ resp.channelCount = Len(channels)
        /\ resp.channelCount = Len(channelsRaw)
        /\ resp.movieCount = Len(movies)
        /\ resp.seriesCount = Len(series)
        /\ resp.totalCount
             = resp.channelCount + resp.movieCount + resp.seriesCount
        /\ resp.m3uContent # NoText
             => resp.totalCount = extinfCount(resp.m3uContent)

\* the failures of the pipeline: of the handshake and of the listing calls
pipelineFailures ==
    listingFailures \cup {f \in hist.fail : f[1] = "handshake"}

\* message is the message of failure f
conveys(f, message) ==
    CASE f[2] = "neterr" -> message = "TypeError: fetch failed"
      [] f[2] = "badjson" -> message = "SyntaxError: Unexpected token in JSON"
      [] f[2] = "notoken" -> message = "Failed to get token from handshake"
      [] f = <<"handshake", "non2xx">> -> message = "Handshake failed: "
      [] f = <<"channels", "non2xx">> -> message = "Failed to get channels: "
      [] f = <<"movList", "non2xx">> -> message = "Failed to get vod list: "
      [] f = <<"serList", "non2xx">> -> message = "Failed to get series list: "
      [] OTHER -> message # ""

\* C13: a conversion in which the handshake or a listing call failed
\* (non-2xx, no token, invalid JSON, network error) is answered 500 with
\* success:false and the message of a failure that happened.
C13_PipelineFailureIs500 ==
    (pc = "done" /\ pipelineFailures # {})
        => /\ resp.status = 500
           /\ resp.success = FALSE
           /\ \E f \in pipelineFailures : conveys(f, resp.error)

\* the channel of the end-to-end scenario as the portal lists it
ScenarioChannel ==
    [id |-> <<"1">>, name |-> <<"N", "e", "w", "s">>,
     cmd |-> <<"f", "f", "m", "p", "e", "g", " ",
               "h", "t", "t", "p", ":", "/", "/", "x", "/", "1">>,
     logo |-> <<>>, number |-> <<>>]

ScenarioExtinf ==
    <<"#", "E", "X", "T", "I", "N", "F", ":", "-", "1", " ", "t",
        "v", "g", "-", "i", "d", "=", "\"", "1", "\"", " ", "g", "r",
        "o", "u", "p", "-", "t", "i", "t", "l", "e", "=", "\"", "L",
        "i", "v", "e", " ", "T", "V", "\"", ",", "N", "e", "w", "s">>

ScenarioUrl == <<"h", "t", "t", "p", ":", "/", "/", "x", "/", "1">>

\* no call to the portal failed and no create_link call threw
healthyRun ==
    /\ hist.fail = {}
    /\ ~(hist.last = "link" /\ hist.lastOut \in {"neterr", "badjson"})

\* a finished run of the scenario against a portal whose other calls are
\* answered; the category source is taken without series categories
scenarioRun ==
    /\ pc = "done"
    /\ body.portalUrl = PortalScenario
    /\ body.macAddress = MacScenario
    /\ token = "abc"
    /\ channelsRaw = <<ScenarioChannel>>
    /\ healthyRun
    /\ cats = <<>>

\* the text has the line #EXTINF of the scenario with the URL line after it
hasScenarioEntry(m3u) ==
    LET ls == Lines(m3u)
    IN  \E i \in 1..(Len(ls) - 1) :
            ls[i] = ScenarioExtinf /\ ls[i + 1] = ScenarioUrl

\* C14: the end-to-end scenario (portal http://example.com/c, device
\* 00:1a:79:12:34:56, token "abc", the one channel News with cmd
\* "ffmpeg http://x/1") ends in a success response with channelCount = 1,
\* and the playlist has the line
\* #EXTINF:-1 tvg-id="1" group-title="Live TV",News followed by the line
\* http://x/1.
C14_Scenario ==
    scenarioRun
        => /\ resp.status = 200
           /\ resp.success
           /\ resp.channelCount = 1
           /\ hasScenarioEntry(generateM3U(channels, movies, series))
           /\ build = "flat" => hasScenarioEntry(resp.m3uContent)

C14_Witness ==
    /\ scenarioRun
    /\ build = "flat"
    /\ resp.success
    /\ resp.channelCount = 1
    /\ hasScenarioEntry(resp.m3uContent)

isCatalogReq(r) == r.action \in {"get_categories", "get_ordered_list"}
isSeriesCatalogReq(r) == r.type = "series" /\ isCatalogReq(r)
isMovieReq(r) ==
    /\ r.type = "vod"
    /\ isCatalogReq(r) \/ (r.action = "create_link" /\ ~r.series)
isEpisodeLinkReq(r) == r.action = "create_link" /\ r.series

\* the phase of the pipeline a request belongs to
phaseOf(r) ==
    CASE r.action = "handshake" -> 1
      [] r.action = "get_all_channels" -> 2
      [] isMovieReq(r) -> 3
      [] OTHER -> 4

\* C15: the requests of a conversion go out in the order handshake,
\* channel listing, movie catalog with the movies' create_link calls, series
\* catalog with the episodes' create_link calls; every request after the
\* handshake is made with the token it returned, and no series catalog
\* request is made before the last movie create_link call.
C15_RequestOrder ==
    /\ reqs # <<>> => reqs[1].action = "handshake"
    /\ \A i \in 2..Len(reqs) :
         /\ reqs[i].action # "handshake"
         /\ reqs[i].auth \notin {"none", ""}
         /\ reqs[i].auth = token
    /\ \A i, j \in 1..Len(reqs) :
         i < j => phaseOf(reqs[i]) <= phaseOf(reqs[j])
    /\ \A i, j \in 1..Len(reqs) :
         (isSeriesCatalogReq(reqs[i]) /\ isMovieReq(reqs[j])) => j < i
    /\ \A j \in 1..Len(reqs) :
         isEpisodeLinkReq(reqs[j])
            => \E i \in 1..(j - 1) : isSeriesCatalogReq(reqs[i])

\* the portal listed series: a series category (category source), or an
\* episode in the series list (category=* source)
seriesOffered ==
    \/ build = "scoped" /\ cats # <<>>
    \/ build = "flat" /\ catalogOf(hist.listed, "series") # <<>>

linkReqs(seriesFlag) ==
    SelectSeq(reqs, LAMBDA r : r.action = "create_link" /\ r.series = seriesFlag)

\* the ids of the items of kind whose create_link returned a URL
resolvedIds(kind) ==
    {hist.links[i].id :
        i \in {j \in 1..Len(hist.links) :
                 hist.links[j].kind = kind /\ hist.links[j].ok}}

\* C16: when the portal lists series and no call fails, the conversion
\* succeeds, every episode that has a cmd is resolved by one create_link
\* request of type vod with series=1, the episodes that resolved are the
\* series of the output, and no movie is resolved with series=1.
C16_SeriesLikeMovies ==
    /\ \A i \in 1..Len(reqs) :
         reqs[i].action = "create_link" => reqs[i].type = "vod"
    /\ \A i \in 1..Len(linkReqs(TRUE)) :
         \A k \in 1..Len(catalogOf(hist.listed, "movies")) :
            linkReqs(TRUE)[i].cmd # catalogOf(hist.listed, "movies")[k].cmd
    /\ (pc = "done" /\ healthyRun /\ seriesOffered)
         => LET eps == SelectSeq(catalogOf(hist.listed, "series"),
                                 LAMBDA it : it.cmd # <<>>)
            IN  /\ resp.success
                /\ [i \in 1..Len(linkReqs(TRUE)) |-> linkReqs(TRUE)[i].cmd]
                     = [i \in 1..Len(eps) |-> eps[i].cmd]
                /\ idsOf(series)
                     = SelectSeq(idsOf(eps),
                                 LAMBDA id : id \in resolvedIds("series"))

PageSteps == {"movPage", "movList", "serList"}

\* C17: when an ordered-list page request is answered non-2xx, the listing
\* ends there as end-of-data: the handler raises nothing and answers no
\* error, the movies resolved from the pages before are kept, and the
\* handler goes on to its next request or step.
C17_Non2xxPageEndsData ==
    (hist.last \in PageSteps /\ hist.lastOut = "non2xx")
        => /\ pc # "done"
           /\ resp = NoResp
           /\ idsOf(movies)
                = SelectSeq(idsOf(catalogOf(hist.listed, "movies")),
                            LAMBDA id : id \in resolvedIds("movies"))

\* C18: the page loop of a VOD listing stops and the conversion returns a
\* response, whatever the portal answers.
C18_PaginationFinite == <>(pc = "done")

\* the handler is suspended at the await of a portal request
AwaitingPortal ==
    {"handshake", "channels", "movCats", "serCats", "movPage", "movLink",
     "serLink", "movList", "serList"}

\* C19: a conversion never has more than one portal request in flight: a
\* request is in flight exactly while the handler awaits its answer, and
\* the next page or the next create_link goes out only after the answer to
\* the one before.
C19_OneOutstanding ==
    /\ pending \in {0, 1}
    /\ pending = 1 <=> pc \in AwaitingPortal
    /\ pc \in AwaitingPortal => Len(reqs) >= 1

C19_Witness ==
    /\ pending = 1
    /\ \E i, j \in 1..Len(reqs) :
         /\ i < j
         /\ reqs[i].action = "create_link"
         /\ reqs[j].action = "create_link"
    /\ \E i, j \in 1..Len(reqs) :
         /\ reqs[i].action = "get_ordered_list" /\ reqs[i].p = 1
         /\ reqs[j].action = "get_ordered_list" /\ reqs[j].p = 2
    /\ pc = "movLink"

\* the two conversions
conversions == {running, parked}

\* the Cookie value of the device of conversion c
deviceOf(c) == cookieMac(formattedMac(c.body.macAddress))

\* the tokens the portal returned to handshakes of conversion c
tokensOf(c) == issuedTo(formattedMac(c.body.macAddress)) \ {""}

\* C20: of two conversions that run interleaved, every request carries the
\* cookie of its own conversion's device; the handshake carries no
\* Authorization header and every later request carries the token returned
\* to its own conversion's handshake; no token and no device of one
\* conversion is in a request of the other.
C20_ConversionsIndependent ==
    \A c \in conversions :
        LET device == deviceOf(c)
            tokens == tokensOf(c)
            others == {d \in conversions : d.body.macAddress # c.body.macAddress}
            foreign == UNION {tokensOf(d) : d \in others}
            devices == {deviceOf(d) : d \in others}
        IN  \A i \in 1..Len(c.reqs) :
                LET r == c.reqs[i]
                IN  /\ r.cookie = device
                    /\ r.action = "handshake" <=> i = 1
                    /\ r.action = "handshake" => r.auth = "none"
                    /\ r.action # "handshake" => r.auth \in tokens
                    /\ r.auth \notin foreign
                    /\ r.cookie \notin devices

C20_Witness ==
    /\ pending = 1
    /\ parked.pending = 1
    /\ pc \in {"movLink", "serLink"}
    /\ parked.pc \in {"movLink", "serLink"}
    /\ Last(reqs).auth \in {"abc", "xyz"}
    /\ Last(parked.reqs).auth \in {"abc", "xyz"} \ {Last(reqs).auth}

handshakeFailed(out) == <<"handshake", out>> \in hist.fail

\* C21: a non-2xx handshake fails with the 'Handshake failed' error, a 2xx
\* handshake without js.token with the different 'Failed to get token'
\* error, a network failure with neither of the two; after any of them the
\* handshake is the only portal request of the conversion.
C21_HandshakeErrors ==
    /\ handshakeFailed("non2xx")
         => /\ pc = "done" /\ resp.status = 500 /\ resp.success = FALSE
            /\ resp.error = "Handshake failed: "
    /\ handshakeFailed("notoken")
         => /\ pc = "done" /\ resp.status = 500 /\ resp.success = FALSE
            /\ resp.error = "Failed to get token from handshake"
    /\ handshakeFailed("neterr")
         => /\ pc = "done" /\ resp.status = 500 /\ resp.success = FALSE
            /\ resp.error \notin {"Handshake failed: ",
                                  "Failed to get token from handshake", ""}
    /\ (\E f \in hist.fail : f[1] = "handshake")
         => /\ Len(reqs) = 1
            /\ reqs[1].action = "handshake"
            /\ pending = 0
            /\ token = ""

C21_Witness ==
    /\ handshakeFailed("notoken")
    /\ pc = "done"
    /\ resp.error = "Failed to get token from handshake"
    /\ Len(reqs) = 1

\* C22: the device identity computed from a non-empty input is either 6
\* groups of 2 hex digits joined by ':' or the input itself, unchanged.
C22_IdentityShape ==
    (pc \in {"mac1", "mac2"} /\ body.macAddress # <<>>)
        => (sixGroups(once) \/ once = body.macAddress)

\* the positions of a playlist where the text of a tvg-id attribute starts
tvgIdAt(m3u) ==
    {i \in 1..(Len(m3u) - Len(T_tvgid) + 1) :
        SubSeq(m3u, i, i + Len(T_tvgid) - 1) = T_tvgid}

\* the values of the tvg-id attributes of a playlist, in the order of the text
tvgIds(m3u) ==
    LET at == tvgIdAt(m3u)
        nth(k) == CHOOSE i \in at : Cardinality({h \in at : h < i}) = k - 1
    IN  [k \in 1..Cardinality(at) |->
           LET from == nth(k) + Len(T_tvgid)
               to == CHOOSE j \in from..Len(m3u) :
                        /\ m3u[j] = "\""
                        /\ \A h \in from..(j - 1) : m3u[h] # "\""
           IN  SubSeq(m3u, from, to - 1)]

\* ids in the order of catalog, without the ids that kept does not hold
keptOrder(catalog, kept) ==
    SelectSeq(idsOf(catalog),
              LAMBDA id : \E k \in 1..Len(kept) : kept[k].id = id)

\* the category is one of the category list the handler holds
inCats(category) == \E c \in 1..Len(cats) : cats[c].id = category

\* the position of a category in the category list the handler holds
catPos(category) == CHOOSE c \in 1..Len(cats) : cats[c].id = category

\* C23: the playlist lists the channels, then the movies, then the series;
\* the pages of a kind are read in category order and then page order, and
\* the emitted items of a kind keep the order those pages listed them in.
C23_CatalogOrder ==
    /\ \A i, j \in 1..Len(hist.listed) :
         (i < j /\ hist.listed[i].kind = hist.listed[j].kind)
            => LET a == hist.listed[i]
                   b == hist.listed[j]
               IN  IF a.category = b.category THEN a.p < b.p
                   ELSE (inCats(a.category) /\ inCats(b.category))
                           => catPos(a.category) < catPos(b.category)
    /\ (pc = "done" /\ resp.success)
         => /\ idsOf(channels) = keptOrder(channelsRaw, channels)
            /\ idsOf(movies)
                 = keptOrder(catalogOf(hist.listed, "movies"), movies)
            /\ idsOf(series)
                 = keptOrder(catalogOf(hist.listed, "series"), series)
            /\ resp.m3uContent # NoText
                 => tvgIds(resp.m3uContent)
                      = idsOf(channels) \o idsOf(movies) \o idsOf(series)

C23_Witness ==
    /\ pc = "done" /\ resp.success
    /\ resp.m3uContent # NoText
    /\ channels # <<>> /\ series # <<>>
    /\ Len(catalogOf(hist.listed, "movies")) = 2
    /\ idsOf(movies) = <<catalogOf(hist.listed, "movies")[2].id>>

\* C25: the table is written only by the step that follows the handshake
\* and every catalog step, before any response exists, so a conversion
\* that ends in a failure response has written nothing; that step answers
\* success:true with the counts whether the write was stored or refused.
C25_WriteLastAndIgnored ==
    [][ /\ db' # db
          => /\ pc = "store" /\ resp = NoResp
             /\ token # "" /\ pending = 0
             /\ Len(reqs) >= 2
        /\ pc = "store"
          => /\ pc' = "done"
             /\ resp'.success /\ resp'.status = 200
             /\ resp'.channelCount = Len(channels)
             /\ resp'.movieCount = Len(movies)
             /\ resp'.seriesCount = Len(series)
        /\ (pc' = "done" /\ ~resp'.success) => (db' = <<>> /\ db = <<>>)
      ]_vars

\* a refused write: the response is success:true and the table is empty
C25_Witness ==
    /\ pc = "done"
    /\ resp.success /\ resp.status = 200
    /\ resp.totalCount > 0
    /\ db = <<>>

\* C24: after a success response, the record loadStoredData reads back for
\* the sessionId of the response holds as many channels, movies and series
\* as the response counts.
C24_StoredIsLatest ==
    (pc = "done" /\ resp.success)
        => LET d == storedFor(resp.sessionId)
           IN  /\ d.loaded
               /\ Len(d.channels) = resp.channelCount
               /\ Len(d.movies) = resp.movieCount
               /\ Len(d.series) = resp.seriesCount

\* C26: the playlist the client generates for one type is the playlist the
\* server serializer gives for the stored list of that type and two empty
\* lists; with no stored data loaded it is the empty string.
C26_ClientEqualsServer ==
    /\ pc = "dlChannels"
         => m3uContent = IF storedData.loaded
                         THEN generateM3U(storedData.channels, <<>>, <<>>)
                         ELSE <<>>
    /\ pc = "dlMovies"
         => m3uContent = IF storedData.loaded
                         THEN generateM3U(<<>>, storedData.movies, <<>>)
                         ELSE <<>>
    /\ pc = "dlSeries"
         => m3uContent = IF storedData.loaded
                         THEN generateM3U(<<>>, <<>>, storedData.series)
                         ELSE <<>>

\* the channels of a page that holds all three kinds, one with a logo
C26_Witness ==
    /\ pc = "dlChannels"
    /\ storedData.loaded
    /\ storedData.movies # <<>> /\ storedData.series # <<>>
    /\ \E i \in 1..Len(storedData.channels) : storedData.channels[i].logo # <<>>
    /\ m3uContent = generateM3U(storedData.channels, <<>>, <<>>)

====
